---- MODULE Spec2Model ----
(***************************************************************************)
(* Versioning coordination logic of the Dolt plugin for Nautobot:          *)
(*   - AutoDoltCommit / DoltAutoCommitMiddleware  (src/dolt/middleware.py)  *)
(*   - GlobalStateRouter                          (src/dolt/routers.py)     *)
(*   - DoltBranchMiddleware.get_branch            (src/dolt/middleware.py)  *)
(***************************************************************************)
EXTENDS Integers, Sequences, FiniteSets, TLC

\* ------------------------------------------------------------------------
\* Bounds of the model
\* ------------------------------------------------------------------------

\* mutation events performed in one behaviour, over all units of work
MaxEvents == 2

\* ------------------------------------------------------------------------
\* Constants of the program
\* ------------------------------------------------------------------------

DOLT_DEFAULT_BRANCH == "main"

DOLT_BRANCH_KEYWORD == "dolt-branch"

GLOBAL_DB == "global"

\* Python's None
None == "None"

\* ------------------------------------------------------------------------
\* Model classes
\* ------------------------------------------------------------------------

\* the plugin's own models (dolt.models)
DoltModels == {"Branch", "Commit", "PullRequest", "PullRequestReview"}

\* models that take part in branch history
VersionedModels == {"Device", "Site"}

\* models that are neither: framework and application global state
OtherModels == {"ObjectChange", "User", "TestModel"}

Models == DoltModels \cup VersionedModels \cup OtherModels

is_dolt_model(model) == model \in DoltModels

is_versioned_model(model) == model \in VersionedModels

\* model._meta.verbose_name
verbose_name(model) ==
    CASE model = "Branch" -> "branch"
      [] model = "Commit" -> "commit"
      [] model = "PullRequest" -> "pull request"
      [] model = "PullRequestReview" -> "pull request review"
      [] model = "Device" -> "device"
      [] model = "Site" -> "site"
      [] model = "ObjectChange" -> "object change"
      [] model = "User" -> "user"
      [] OTHER -> "test model"

\* ------------------------------------------------------------------------
\* Requests
\* ------------------------------------------------------------------------

\* a path is the sequence of its characters
PathHealth == <<"/", "h", "e", "a", "l", "t", "h", "/">>

PathSites == <<"/", "d", "c", "i", "m", "/", "s", "i", "t", "e", "s", "/">>

PathApiHealth == <<"/", "a", "p", "i", "/", "h", "e", "a", "l", "t", "h">>

HealthNeedle == <<"/", "h", "e", "a", "l", "t", "h">>

\* Python's `needle in text` on strings
Contains(text, needle) ==
    \E i \in 1..(Len(text) - Len(needle) + 1) :
        SubSeq(text, i, i + Len(needle) - 1) = needle

EmptyDict == [k \in {} |-> None]

Alice == [is_authenticated |-> TRUE, username |-> "alice"]

AnonymousUser == [is_authenticated |-> FALSE, username |-> ""]

Requests ==
    { [path |-> PathSites, user |-> Alice, session |-> EmptyDict, headers |-> EmptyDict],
      [path |-> PathSites, user |-> Alice,
       session |-> (DOLT_BRANCH_KEYWORD :> "feature"), headers |-> EmptyDict],
      [path |-> PathHealth, user |-> AnonymousUser, session |-> EmptyDict, headers |-> EmptyDict],
      [path |-> PathApiHealth, user |-> AnonymousUser, session |-> EmptyDict,
       headers |-> (DOLT_BRANCH_KEYWORD :> "feature")] }

\* a resolution that looks at the header before the session
branch_from_request_header_first(request) ==
    IF DOLT_BRANCH_KEYWORD \in DOMAIN request.headers
    THEN request.headers[DOLT_BRANCH_KEYWORD]
    ELSE IF DOLT_BRANCH_KEYWORD \in DOMAIN request.session
         THEN request.session[DOLT_BRANCH_KEYWORD]
         ELSE DOLT_DEFAULT_BRANCH

branch_from_request(request) ==
    IF DOLT_BRANCH_KEYWORD \in DOMAIN request.session
    THEN request.session[DOLT_BRANCH_KEYWORD]
    ELSE IF DOLT_BRANCH_KEYWORD \in DOMAIN request.headers
         THEN request.headers[DOLT_BRANCH_KEYWORD]
         ELSE DOLT_DEFAULT_BRANCH

\* a probe test that looks at the start of the path only
is_health_check_prefix(request) ==
    /\ Len(request.path) >= Len(HealthNeedle)
    /\ SubSeq(request.path, 1, Len(HealthNeedle)) = HealthNeedle

is_health_check(request) == Contains(request.path, HealthNeedle)

\* ------------------------------------------------------------------------
\* State
\* ------------------------------------------------------------------------

UnitIds == {"u1", "u2"}

Signals == {"post_save", "m2m_changed", "pre_delete"}

VARIABLES
    pc,          \* pc[u]: position of the request thread of unit of work u
    ctx,         \* ctx[u]: the AutoDoltCommit object of unit of work u
    receivers,   \* receivers[s]: the unit whose handler is connected to signal s
    commits,     \* commits[u]: the dolt_commit calls issued by u's _commit
    outcome,     \* outcome[u]: how the with-statement of u ended
    body,        \* body[u]: the exception the body of the with-statement ended with
    sent,        \* number of mutation events performed so far
    observed,    \* observed[u]: kinds of events u's handlers were invoked with
    router_enabled,  \* the switch read by is_global_router_enabled()
    active,      \* the branch checked out in the database session
    routed,      \* the last routing call and its result
    branches,    \* names in the dolt_branches table
    session,     \* request.session of the browser session
    handled,     \* the last process_view call and its result
    repo,        \* repo[c]: the rows of the diffable tables as of commit c
    diffed       \* the last diff call and its result

vars == <<pc, ctx, receivers, commits, outcome, body, sent, observed,
          router_enabled, active, routed, branches, session, handled,
          repo, diffed>>

commitVars == <<pc, ctx, receivers, commits, outcome, body, sent, observed>>

routerVars == <<router_enabled, active, routed>>

branchVars == <<branches, session, handled>>

diffVars == <<repo, diffed>>

\* ------------------------------------------------------------------------
\* AutoDoltCommit
\* ------------------------------------------------------------------------

\* instances that are saved, related or deleted during a unit of work
Instances ==
    { [model |-> "Branch", str |-> "b1"],
      [model |-> "ObjectChange", str |-> "site ams01 changed"],
      [model |-> "Device", str |-> "sw1"] }

M2MActions == {"pre_add", "post_add", "post_remove"}

PkSets == {{}, {1}}

post_save_kwargs(created) == [signal |-> "post_save", created |-> created]

m2m_changed_kwargs(action, pk_set) ==
    [signal |-> "m2m_changed", action |-> action, pk_set |-> pk_set]

pre_delete_kwargs == [signal |-> "pre_delete"]

\* kwargs.get(key)
kwargs_get(kwargs, key) == IF key \in DOMAIN kwargs THEN kwargs[key] ELSE None

AutoDoltCommit_init(request, branch) ==
    [request |-> request, branch |-> branch, commit |-> FALSE,
     changes |-> <<>>, instances |-> <<>>]

change_msg_for_dolt_obj(instance, kwargs) ==
    LET created == "created" \in DOMAIN kwargs /\ kwargs["created"]
        verb == IF created THEN "Created" ELSE "Updated"
    IN  verb \o " " \o verbose_name(instance.model) \o " \"" \o instance.str \o "\" "

\* an update handler that takes every m2m event for a change, whatever its
\* action and key set
_handle_update_any_m2m(self, instance, kwargs) ==
    LET s1 == IF is_dolt_model(instance.model)
              THEN [self EXCEPT !.branch = DOLT_DEFAULT_BRANCH,
                                !.changes = Append(@, change_msg_for_dolt_obj(instance, kwargs))]
              ELSE self
        s2 == IF instance.model = "ObjectChange"
              THEN [s1 EXCEPT !.changes = Append(@, instance.str)]
              ELSE s1
    IN  IF "created" \in DOMAIN kwargs \/ "action" \in DOMAIN kwargs
        THEN [s2 EXCEPT !.commit = TRUE]
        ELSE s2

_handle_update(self, instance, kwargs) ==
    LET s1 == IF is_dolt_model(instance.model)
              THEN [self EXCEPT !.branch = DOLT_DEFAULT_BRANCH,
                                !.changes = Append(@, change_msg_for_dolt_obj(instance, kwargs))]
              ELSE self
        s2 == IF instance.model = "ObjectChange"
              THEN [s1 EXCEPT !.changes = Append(@, instance.str)]
              ELSE s1
    IN  IF "created" \in DOMAIN kwargs
        THEN [s2 EXCEPT !.commit = TRUE]
        ELSE IF kwargs_get(kwargs, "action") \in {"post_add", "post_remove"}
                /\ kwargs["pk_set"] # {}
             THEN [s2 EXCEPT !.commit = TRUE]
             ELSE s2

\* a delete handler that leaves the dirty flag alone
_handle_delete_clean(self, instance, kwargs) == self

_handle_delete(self, instance, kwargs) == [self EXCEPT !.commit = TRUE]

RECURSIVE join(_, _)
\* Python's sep.join(strings)
join(sep, strings) ==
    IF strings = <<>> THEN ""
    ELSE IF Len(strings) = 1 THEN strings[1]
    ELSE strings[1] \o sep \o join(sep, Tail(strings))

\* a message that lists the descriptions newest first
_get_commit_message_newest_first(self) ==
    LET reversed(q) == [i \in 1..Len(q) |-> q[Len(q) + 1 - i]] IN
    IF self.changes # <<>> THEN join("; ", reversed(self.changes))
    ELSE IF self.instances # <<>> THEN join("; ", reversed(self.instances))
    ELSE "auto dolt commit"

_get_commit_message(self) ==
    IF self.changes # <<>> THEN join("; ", self.changes)
    ELSE IF self.instances # <<>> THEN join("; ", self.instances)
    ELSE "auto dolt commit"

\* the branch the database connection of a request is on while its view and
\* its __exit__ run: the one DoltBranchMiddleware looked up in the branch
\* table and checked out
connection_branch(request, table) ==
    IF branch_from_request(request) \in table
    THEN branch_from_request(request)
    ELSE DOLT_DEFAULT_BRANCH

\* Commit.save(*args, author=None, **kwargs): the dolt_commit call it issues;
\* the call names no branch, so the engine commits on the branch the
\* connection is on, and kwargs is passed on to Model.save only
Commit_save(message, author, kwargs, connection) ==
    [flags |-> <<"--all", "--force", "--allow-empty">>,
     message |-> message,
     author |-> IF author = None THEN "nautobot <nautobot@ntc.com>" ELSE author,
     kwargs |-> kwargs,
     on_branch |-> connection]

_commit(self, connection) ==
    Commit_save(_get_commit_message(self), None,
                [branch |-> self.branch, user |-> self.request.user],
                connection)

\* Signal.connect(receiver, dispatch_uid=...): a receiver is added only when no
\* receiver is registered under the same dispatch_uid
connect(recv, signal, u) ==
    IF recv[signal] = None THEN [recv EXCEPT ![signal] = u] ELSE recv

\* Signal.disconnect(receiver, dispatch_uid=...): removes whatever receiver is
\* registered under the dispatch_uid
disconnect(recv, signal, u) == [recv EXCEPT ![signal] = None]

\* the kind of an event, as seen by the handler it is delivered to
EventKind(kwargs) ==
    CASE kwargs.signal = "post_save" ->
            IF kwargs.created THEN "post_save_created" ELSE "post_save_updated"
      [] kwargs.signal = "m2m_changed" ->
            IF kwargs.action \in {"post_add", "post_remove"} /\ kwargs.pk_set # {}
            THEN "m2m_items" ELSE "m2m_other"
      [] OTHER -> "pre_delete"

\* marks an event that _handle_update takes for one of the plugin's own objects
DoltObjectEvent(instance, kwargs) ==
    IF kwargs.signal # "pre_delete" /\ is_dolt_model(instance.model)
    THEN {"dolt_object"} ELSE {}

\* Signal.send: the connected receiver, if any, handles the event
send(u, instance, kwargs) ==
    LET r == receivers[kwargs.signal] IN
    /\ pc[u] = "active"
    /\ sent < MaxEvents
    /\ sent' = sent + 1
    /\ IF r = None
       THEN UNCHANGED <<ctx, observed>>
       ELSE /\ ctx' = [ctx EXCEPT ![r] =
                        IF kwargs.signal = "pre_delete"
                        THEN _handle_delete(@, instance, kwargs)
                        ELSE _handle_update(@, instance, kwargs)]
            /\ observed' = [observed EXCEPT ![r] =
                               @ \cup {EventKind(kwargs)} \cup DoltObjectEvent(instance, kwargs)]
    /\ UNCHANGED <<pc, receivers, commits, outcome, body, routerVars, branchVars, diffVars>>

\* AutoDoltCommit.__enter__
Enter(u) ==
    /\ pc[u] = "new"
    /\ pc' = [pc EXCEPT ![u] = "active"]
    /\ receivers' = connect(connect(connect(receivers, "post_save", u),
                                    "m2m_changed", u), "pre_delete", u)
    /\ UNCHANGED <<ctx, commits, outcome, body, sent, observed, routerVars, branchVars, diffVars>>

PostSave(u) ==
    \E instance \in Instances, created \in BOOLEAN :
        send(u, instance, post_save_kwargs(created))

M2MChanged(u) ==
    \E instance \in Instances, action \in M2MActions, pk_set \in PkSets :
        send(u, instance, m2m_changed_kwargs(action, pk_set))

PreDelete(u) ==
    \E instance \in Instances : send(u, instance, pre_delete_kwargs)

\* what leaves the with-statement when __exit__ itself completes: __exit__
\* returns None, so an exception of the body is not suppressed
\* an __exit__ that returns a true value: the exception of the body is dropped
Propagated_suppressed(exc) == "returned"

Propagated(exc) == IF exc = None THEN "returned" ELSE "raised_body"

Disconnected(recv, u) ==
    disconnect(disconnect(disconnect(recv, "post_save", u), "m2m_changed", u),
               "pre_delete", u)

\* AutoDoltCommit.__exit__(type, value, traceback); exc is the exception of
\* the body (None when it completed), commit_ok whether the engine accepts
\* the commit
Exit(u, exc, commit_ok) ==
    /\ pc[u] = "active"
    /\ pc' = [pc EXCEPT ![u] = "exited"]
    /\ body' = [body EXCEPT ![u] = exc]
    /\ IF is_health_check(ctx[u].request)
       THEN /\ outcome' = [outcome EXCEPT ![u] = Propagated(exc)]
            /\ UNCHANGED <<receivers, commits>>
       ELSE IF ctx[u].commit
       THEN /\ commits' = [commits EXCEPT ![u] = Append(@, _commit(ctx[u], connection_branch(ctx[u].request, branches)))]
            /\ IF commit_ok
               THEN /\ receivers' = Disconnected(receivers, u)
                    /\ outcome' = [outcome EXCEPT ![u] = Propagated(exc)]
               ELSE /\ outcome' = [outcome EXCEPT ![u] = "raised_commit"]
                    /\ UNCHANGED receivers
       ELSE /\ receivers' = Disconnected(receivers, u)
            /\ outcome' = [outcome EXCEPT ![u] = Propagated(exc)]
            /\ UNCHANGED commits
    /\ UNCHANGED <<ctx, sent, observed, routerVars, branchVars, diffVars>>

ExitUnit(u) ==
    \E exc \in {None, "Exception"}, commit_ok \in BOOLEAN : Exit(u, exc, commit_ok)

\* the AutoDoltCommit object is released after the with-statement; the
\* signals hold its handlers weakly, so they die with it
Collect(u) ==
    /\ pc[u] = "exited"
    /\ pc' = [pc EXCEPT ![u] = "collected"]
    /\ receivers' = [s \in Signals |-> IF receivers[s] = u THEN None ELSE receivers[s]]
    /\ UNCHANGED <<ctx, commits, outcome, body, sent, observed, routerVars, branchVars, diffVars>>

\* the commits of the repository: cA and cB are both children of c0
CommitHashes == {"c0", "cA", "cB"}

\* the rows of the diffable tables at one commit: pk -> value of the row, None
\* where no row has the pk
Snapshots ==
    { [Site |-> (7 :> a @@ 9 :> b), Device |-> (7 :> c)] :
        a \in {None, "v1", "v2"}, b \in {None, "v1"}, c \in {None, "v1"} }

EmptySnapshot == [Site |-> (7 :> None @@ 9 :> None), Device |-> (7 :> None)]

DiffIdle ==
    /\ repo = [c \in CommitHashes |-> EmptySnapshot]
    /\ diffed = <<>>

RouterIdle ==
    /\ router_enabled = TRUE
    /\ active = DOLT_DEFAULT_BRANCH
    /\ routed = <<>>

BranchIdle ==
    /\ branches = {DOLT_DEFAULT_BRANCH, "feature"}
    /\ session = EmptyDict
    /\ handled = <<>>

Init ==
    /\ pc = [u \in UnitIds |-> "new"]
    /\ ctx \in [UnitIds -> {AutoDoltCommit_init(r, branch_from_request(r)) : r \in Requests}]
    /\ receivers = [s \in Signals |-> None]
    /\ commits = [u \in UnitIds |-> <<>>]
    /\ outcome = [u \in UnitIds |-> "pending"]
    /\ body = [u \in UnitIds |-> "pending"]
    /\ sent = 0
    /\ observed = [u \in UnitIds |-> {}]
    /\ RouterIdle
    /\ BranchIdle
    /\ DiffIdle

Next ==
    \E u \in UnitIds :
        \/ Enter(u)
        \/ PostSave(u)
        \/ M2MChanged(u)
        \/ PreDelete(u)
        \/ ExitUnit(u)
        \/ Collect(u)

Spec == Init /\ [][Next]_vars

\* ------------------------------------------------------------------------
\* GlobalStateRouter
\* ------------------------------------------------------------------------

BranchNames == {DOLT_DEFAULT_BRANCH, "feature", "ghost"}

\* what a routing call sees of its surroundings
RouterEnv == [enabled |-> router_enabled, active_branch |-> active]

is_global_router_enabled(env) == env.enabled

active_branch(env) == env.active_branch

NoError == [type |-> None, message |-> <<>>]

Returned(db) == [raised |-> FALSE, db |-> db, error |-> NoError]

Raised(error) == [raised |-> TRUE, db |-> None, error |-> error]

\* the DoltError of db_for_write; the message is the sequence of the
\* f-string's literal and interpolated parts
DoltError(model, env) ==
    [type |-> "DoltError",
     message |-> <<"Error writing model <strong>", model, "</strong> on branch <strong>\"",
                   active_branch(env),
                   "\"</strong>: non-versioned models must be written on branch <strong>\"",
                   DOLT_DEFAULT_BRANCH, "\"</strong>.">>]

branch_is_not_primary(env) == active_branch(env) # DOLT_DEFAULT_BRANCH

\* a read routing that applies the primary-branch rule of writes
db_for_read_guarded(model, env) ==
    IF ~is_global_router_enabled(env) THEN Returned(None)
    ELSE IF is_versioned_model(model) THEN Returned(None)
    ELSE IF branch_is_not_primary(env) THEN Raised(DoltError(model, env))
    ELSE Returned(GLOBAL_DB)

db_for_read(model, env) ==
    IF ~is_global_router_enabled(env) THEN Returned(None)
    ELSE IF is_versioned_model(model) THEN Returned(None)
    ELSE Returned(GLOBAL_DB)

\* a write routing without the primary-branch rule
db_for_write_unguarded(model, env) ==
    IF ~is_global_router_enabled(env) THEN Returned(None)
    ELSE IF is_dolt_model(model) THEN Returned(GLOBAL_DB)
    ELSE IF is_versioned_model(model) THEN Returned(None)
    ELSE Returned(GLOBAL_DB)

\* a write routing that applies the primary-branch rule to the plugin's own
\* models too
db_for_write_dolt_guarded(model, env) ==
    IF ~is_global_router_enabled(env) THEN Returned(None)
    ELSE IF is_versioned_model(model) THEN Returned(None)
    ELSE IF branch_is_not_primary(env) THEN Raised(DoltError(model, env))
    ELSE Returned(GLOBAL_DB)

\* a write routing that does not ask whether the model is versioned
db_for_write_unversioned(model, env) ==
    IF ~is_global_router_enabled(env) THEN Returned(None)
    ELSE IF is_dolt_model(model) THEN Returned(GLOBAL_DB)
    ELSE IF branch_is_not_primary(env) THEN Raised(DoltError(model, env))
    ELSE Returned(GLOBAL_DB)

db_for_write(model, env) ==
    IF ~is_global_router_enabled(env) THEN Returned(None)
    ELSE IF is_dolt_model(model) THEN Returned(GLOBAL_DB)
    ELSE IF is_versioned_model(model) THEN Returned(None)
    ELSE IF branch_is_not_primary(env) THEN Raised(DoltError(model, env))
    ELSE Returned(GLOBAL_DB)

RoutingCall(op, model, result) ==
    [op |-> op, model |-> model, enabled |-> router_enabled, branch |-> active,
     result |-> result]

\* the ORM asks the router where to read a model
RouteRead(model) ==
    /\ routed' = <<RoutingCall("read", model, db_for_read(model, RouterEnv))>>
    /\ UNCHANGED <<router_enabled, active, commitVars, branchVars, diffVars>>

\* the ORM asks the router where to write a model
RouteWrite(model) ==
    /\ routed' = <<RoutingCall("write", model, db_for_write(model, RouterEnv))>>
    /\ UNCHANGED <<router_enabled, active, commitVars, branchVars, diffVars>>

\* Branch.checkout_branch: dolt_checkout sets the database session's branch
checkout_branch(name) ==
    /\ name \in branches
    /\ active' = name
    /\ UNCHANGED <<router_enabled, routed, commitVars, branchVars, diffVars>>

CommitIdle ==
    /\ pc = [u \in UnitIds |-> "new"]
    /\ ctx = [u \in UnitIds |-> AutoDoltCommit_init(CHOOSE r \in Requests : TRUE, None)]
    /\ receivers = [s \in Signals |-> None]
    /\ commits = [u \in UnitIds |-> <<>>]
    /\ outcome = [u \in UnitIds |-> "pending"]
    /\ body = [u \in UnitIds |-> "pending"]
    /\ sent = 0
    /\ observed = [u \in UnitIds |-> {}]

InitRouter ==
    /\ router_enabled \in BOOLEAN
    /\ active = DOLT_DEFAULT_BRANCH
    /\ routed = <<>>
    /\ branches = BranchNames
    /\ session = EmptyDict
    /\ handled = <<>>
    /\ CommitIdle
    /\ DiffIdle

NextRouter ==
    \/ \E model \in Models : RouteRead(model)
    \/ \E model \in Models : RouteWrite(model)
    \/ \E name \in BranchNames : checkout_branch(name)

SpecRouter == InitRouter /\ [][NextRouter]_vars

\* ------------------------------------------------------------------------
\* DoltBranchMiddleware
\* ------------------------------------------------------------------------

HeaderChoices ==
    {EmptyDict, (DOLT_BRANCH_KEYWORD :> "feature"), (DOLT_BRANCH_KEYWORD :> "ghost")}

SessionChoices ==
    {EmptyDict} \cup {(DOLT_BRANCH_KEYWORD :> b) : b \in BranchNames}

\* a view: the models it writes, in order, and the exception it ends with
Views ==
    [writes : {<<>>, <<"Device">>, <<"User">>, <<"Branch">>, <<"Device", "User">>},
     raises : {None}]
    \cup [writes : {<<>>}, raises : {"Exception"}]

Message(level, text) == [level |-> level, text |-> text]

\* a session with the branch keyword set, every other key kept
SessionWith(sess, value) ==
    [k \in DOMAIN sess \cup {DOLT_BRANCH_KEYWORD} |->
        IF k = DOLT_BRANCH_KEYWORD THEN value ELSE sess[k]]

\* get_branch that answers with the default branch without storing it
get_branch_unpinned(request, table) ==
    LET requested == branch_from_request(request) IN
    IF requested \in table
    THEN [raised |-> FALSE, branch |-> requested, request |-> request]
    ELSE [raised |-> DOLT_DEFAULT_BRANCH \notin table,
          branch |-> IF DOLT_DEFAULT_BRANCH \in table THEN DOLT_DEFAULT_BRANCH ELSE None,
          request |-> [request EXCEPT
              !.messages = Append(@, Message("warning", <<"branch not found: ", requested>>))]]

\* DoltBranchMiddleware.get_branch; table is the content of dolt_branches.
\* Branch.objects.get raises ObjectDoesNotExist for a name not in the table.
get_branch(request, table) ==
    LET requested == branch_from_request(request) IN
    IF requested \in table
    THEN [raised |-> FALSE, branch |-> requested, request |-> request]
    ELSE [raised |-> DOLT_DEFAULT_BRANCH \notin table,
          branch |-> IF DOLT_DEFAULT_BRANCH \in table THEN DOLT_DEFAULT_BRANCH ELSE None,
          request |-> [request EXCEPT
              !.messages = Append(@, Message("warning", <<"branch not found: ", requested>>)),
              !.session = SessionWith(@, DOLT_DEFAULT_BRANCH)]]

RECURSIVE view_func(_, _, _)
\* the view runs: each write is routed, the first DoltError ends the view
view_func(writes, raises, env) ==
    IF writes = <<>>
    THEN IF raises = None THEN [kind |-> "response", error |-> NoError]
         ELSE [kind |-> "raised", error |-> [type |-> raises, message |-> <<>>]]
    ELSE LET r == db_for_write(Head(writes), env) IN
         IF r.raised THEN [kind |-> "raised", error |-> r.error]
         ELSE view_func(Tail(writes), raises, env)

\* str(e) of the exception the engine raises when it rejects a checkout
CheckoutRejected == "checkout rejected"

\* a checkout whose failure leaves process_view
try_checkout_uncaught(branch, current, messages, checkout_ok) ==
    IF checkout_ok
    THEN [propagated |-> FALSE, active |-> branch, messages |-> messages]
    ELSE [propagated |-> TRUE, active |-> current, messages |-> messages]

\* process_view's try: branch.checkout() except Exception: messages.error(...);
\* checkout_ok tells whether the engine accepts the checkout, current is the
\* branch the database session is on
try_checkout(branch, current, messages, checkout_ok) ==
    IF checkout_ok
    THEN [propagated |-> FALSE, active |-> branch, messages |-> messages]
    ELSE [propagated |-> FALSE, active |-> current,
          messages |-> Append(messages,
                              Message("error", <<"could not checkout branch ", branch,
                                                 ": ", CheckoutRejected>>))]

\* a view call that lets the DoltError through
call_view_uncaught(view, env, path, messages) ==
    LET ran == view_func(view.writes, view.raises, env) IN
    [calls |-> 1, view_error |-> ran.error,
     response |-> [kind |-> ran.kind, to |-> <<>>], messages |-> messages]

\* process_view's try: return view_func(...) except DoltError as e:
\* messages.error(request, e); return redirect(request.path)
call_view(view, env, path, messages) ==
    LET ran == view_func(view.writes, view.raises, env) IN
    IF ran.kind = "raised" /\ ran.error.type = "DoltError"
    THEN [calls |-> 1, view_error |-> ran.error,
          response |-> [kind |-> "redirect", to |-> path],
          messages |-> Append(messages, Message("error", ran.error.message))]
    ELSE [calls |-> 1, view_error |-> ran.error,
          response |-> [kind |-> ran.kind, to |-> <<>>], messages |-> messages]

\* DoltBranchMiddleware.process_view for one request of the browser session;
\* checkout_ok tells whether the engine accepts the checkout
process_view(headers, user, path, view, checkout_ok) ==
    LET request == [path |-> path, user |-> user, session |-> session,
                    headers |-> headers, messages |-> <<>>]
        received == [path |-> path, user |-> user, session |-> session,
                     headers |-> headers]
        got == get_branch(request, branches)
        co == try_checkout(got.branch, active, got.request.messages, checkout_ok)
        m2 == IF user.is_authenticated
              THEN Append(co.messages, Message("info", <<"Active Branch: ", co.active>>))
              ELSE co.messages
        env == [enabled |-> router_enabled, active_branch |-> co.active]
        done == call_view(view, env, path, m2)
        call == [request |-> received, view |-> view,
                 requested |-> branch_from_request(request),
                 found |-> branch_from_request(request) \in branches,
                 active_before |-> active]
    IN  /\ IF got.raised
           THEN /\ handled' = <<[call EXCEPT !.found = FALSE] @@
                                [branch |-> None,
                                 get_branch_raised |-> TRUE,
                                 checkout_ok |-> FALSE, view_calls |-> 0,
                                 active_in_view |-> None, view_error |-> NoError,
                                 response |-> [kind |-> "raised", to |-> <<>>],
                                 messages |-> got.request.messages]>>
                /\ session' = got.request.session
                /\ UNCHANGED active
           ELSE IF co.propagated
           THEN /\ handled' = <<call @@
                                [branch |-> got.branch,
                                 get_branch_raised |-> FALSE,
                                 checkout_ok |-> checkout_ok, view_calls |-> 0,
                                 active_in_view |-> None, view_error |-> NoError,
                                 response |-> [kind |-> "raised", to |-> <<>>],
                                 messages |-> co.messages]>>
                /\ session' = got.request.session
                /\ active' = co.active
           ELSE /\ active' = co.active
                /\ session' = got.request.session
                /\ handled' = <<call @@
                                [branch |-> got.branch,
                                 get_branch_raised |-> FALSE,
                                 checkout_ok |-> checkout_ok,
                                 view_calls |-> done.calls,
                                 active_in_view |-> co.active,
                                 view_error |-> done.view_error,
                                 response |-> done.response,
                                 messages |-> done.messages]>>
        /\ UNCHANGED <<router_enabled, routed, branches, commitVars, diffVars>>

ProcessView ==
    \E headers \in HeaderChoices, user \in {Alice, AnonymousUser},
       path \in {PathSites, PathApiHealth},
       view \in Views, checkout_ok \in BOOLEAN :
        process_view(headers, user, path, view, checkout_ok)

\* Branch.save: a row is inserted into dolt_branches
Branch_save(name) ==
    /\ name \notin branches
    /\ branches' = branches \cup {name}
    /\ UNCHANGED <<router_enabled, active, routed, session, handled, commitVars, diffVars>>

InitBranch ==
    /\ router_enabled \in BOOLEAN
    /\ active = DOLT_DEFAULT_BRANCH
    /\ routed = <<>>
    /\ branches = {DOLT_DEFAULT_BRANCH}
    /\ session \in SessionChoices
    /\ handled = <<>>
    /\ CommitIdle
    /\ DiffIdle

NextBranch ==
    \/ ProcessView
    \/ \E name \in BranchNames : Branch_save(name)

SpecBranch == InitBranch /\ [][NextBranch]_vars

\* ------------------------------------------------------------------------
\* diffs
\* ------------------------------------------------------------------------

\* ContentType.objects.all(), in row order; class is what model_class()
\* returns, None for a content type whose model is gone
ContentTypes ==
    << [app_label |-> "dcim", model |-> "site", class |-> "Site"],
       [app_label |-> "dcim", model |-> "device", class |-> "Device"],
       [app_label |-> "users", model |-> "user", class |-> "User"],
       [app_label |-> "dcim", model |-> "oldthing", class |-> None] >>

model_class(ct) == ct.class

\* the models register_diff_tables gives a diff table
diff_table_for_model(model) == model \in {"Site", "Device"}

\* Commit.merge_base: the nearest common ancestor in the commit graph
merge_base(left, right) == IF left = right THEN left ELSE "c0"

\* the rows of the engine's table dolt_commit_diff_<table> for a pair of
\* commits; an id the row does not have (NULL) is the empty sequence
dolt_commit_diff(data, model, from_commit, to_commit) ==
    LET from_rows == data[from_commit][model]
        to_rows == data[to_commit][model]
        added == {pk \in DOMAIN to_rows : from_rows[pk] = None /\ to_rows[pk] # None}
        removed == {pk \in DOMAIN to_rows : from_rows[pk] # None /\ to_rows[pk] = None}
        modified == {pk \in DOMAIN to_rows :
                        /\ from_rows[pk] # None /\ to_rows[pk] # None
                        /\ from_rows[pk] # to_rows[pk]}
    IN  {[diff_type |-> "added", from_id |-> <<>>, to_id |-> <<pk>>,
          from_value |-> None, to_value |-> to_rows[pk]] : pk \in added}
        \cup {[diff_type |-> "modified", from_id |-> <<pk>>, to_id |-> <<pk>>,
               from_value |-> from_rows[pk], to_value |-> to_rows[pk]] : pk \in modified}
        \cup {[diff_type |-> "removed", from_id |-> <<pk>>, to_id |-> <<>>,
               from_value |-> from_rows[pk], to_value |-> None] : pk \in removed}

\* Python's filter(): an iterator that yields each item it keeps once
filter(kept) == [pending |-> kept]

\* a set comprehension over an iterator: takes everything still pending and
\* leaves the iterator empty
Drain(iterator) == [items |-> iterator.pending, iterator |-> [pending |-> {}]]

content_types_with_diffs(from_commit, to_commit, data) ==
    LET diffable(ct) == model_class(ct) # None /\ diff_table_for_model(model_class(ct))
        counted == SelectSeq(ContentTypes, diffable)
        res == {<<counted[i].app_label, counted[i].model,
                  Cardinality(dolt_commit_diff(data, model_class(counted[i]),
                                               from_commit, to_commit))>> :
                   i \in 1..Len(counted)}
        nonempty == filter({tup \in res : tup[3] # 0})
        first == Drain(nonempty)
        second == Drain(first.iterator)
        app_labels == {tup[1] : tup \in first.items}
        models == {tup[2] : tup \in second.items}
        selected(ct) == ct.app_label \in app_labels /\ ct.model \in models
    IN  SelectSeq(ContentTypes, selected)

RECURSIVE sorted(_)
\* sorted(rows, key=lambda d: d.pk)
sorted(rows) ==
    IF rows = {} THEN <<>>
    ELSE LET least == CHOOSE r \in rows : \A other \in rows : r.pk <= other.pk
         IN  <<least>> \o sorted(rows \ {least})

\* one pass of the loop of two_dot_diffs: the package of a content type, or
\* nothing when the type has no row to show
diff_package(content_type, from_commit, to_commit, data) ==
    LET model == model_class(content_type)
        diffs == dolt_commit_diff(data, model, from_commit, to_commit)
        annotated(pk, root) ==
            [pk |-> pk, root |-> root,
             diff |-> {[from |-> d.from_value, to |-> d.to_value] :
                          d \in {x \in diffs : IF root = "to" THEN x.to_id = <<pk>>
                                               ELSE x.from_id = <<pk>>}}]
        to_queryset ==
            {annotated(pk, "to") :
                pk \in {k \in DOMAIN data[to_commit][model] :
                           /\ data[to_commit][model][k] # None
                           /\ <<k>> \in {d.to_id : d \in diffs}}}
        from_queryset ==
            {annotated(pk, "from") :
                pk \in {k \in DOMAIN data[from_commit][model] :
                           /\ data[from_commit][model][k] # None
                           /\ <<k>> \in {d.from_id : d \in {x \in diffs : x.diff_type = "removed"}}}}
        diff_rows == sorted(to_queryset \cup from_queryset)
        count(diff_type) == Cardinality({d \in diffs : d.diff_type = diff_type})
    IN  IF Len(diff_rows) = 0 THEN <<>>
        ELSE <<[name |-> verbose_name(model) \o " Diffs",
                table |-> diff_rows,
                added |-> count("added"),
                modified |-> count("modified"),
                removed |-> count("removed")]>>

RECURSIVE diff_results(_, _, _, _)
\* the loop of two_dot_diffs over the content types it was given
diff_results(content_types, from_commit, to_commit, data) ==
    IF content_types = <<>> THEN <<>>
    ELSE diff_package(Head(content_types), from_commit, to_commit, data)
         \o diff_results(Tail(content_types), from_commit, to_commit, data)

ValueError == "must specify both a to_commit and from_commit"

\* a call of the engine, as it appears in the trace of a diff
Query(op, from_commit, to_commit) ==
    [op |-> op, from_commit |-> from_commit, to_commit |-> to_commit]

\* a diff that looks at every registered content type and keeps every package
two_dot_diffs_no_skip(from_commit, to_commit, data) ==
    IF from_commit = None \/ to_commit = None
    THEN [raised |-> TRUE, error |-> ValueError, packages |-> <<>>, queries |-> <<>>]
    ELSE LET package(i) ==
                 LET model == model_class(ContentTypes[i])
                     diffs == dolt_commit_diff(data, model, from_commit, to_commit)
                     count(t) == Cardinality({d \in diffs : d.diff_type = t})
                 IN  [name |-> verbose_name(model) \o " Diffs",
                      table |-> <<>>,
                      added |-> count("added"), modified |-> count("modified"),
                      removed |-> count("removed")]
         IN  [raised |-> FALSE, error |-> None,
              packages |-> [i \in 1..2 |-> package(i)],
              queries |-> <<Query("dolt_commit_diff", from_commit, to_commit)>>]

\* a diff that lists what exists at to_commit, whatever from_commit holds
two_dot_diffs_listing(from_commit, to_commit, data) ==
    IF from_commit = None \/ to_commit = None
    THEN [raised |-> TRUE, error |-> ValueError, packages |-> <<>>, queries |-> <<>>]
    ELSE [raised |-> FALSE, error |-> None,
          packages |-> diff_package(ContentTypes[1], "c0", to_commit,
                                    [data EXCEPT !["c0"] = EmptySnapshot]),
          queries |-> <<Query("dolt_commit_diff", from_commit, to_commit)>>]

two_dot_diffs(from_commit, to_commit, data) ==
    IF from_commit = None \/ to_commit = None
    THEN [raised |-> TRUE, error |-> ValueError, packages |-> <<>>, queries |-> <<>>]
    ELSE [raised |-> FALSE, error |-> None,
          packages |-> diff_results(content_types_with_diffs(from_commit, to_commit, data),
                                    from_commit, to_commit, data),
          queries |-> <<Query("dolt_commit_diff", from_commit, to_commit)>>]

\* a three-dot diff that leaves the test of its arguments to two_dot_diffs
three_dot_diffs_unchecked(from_commit, to_commit, data) ==
    LET inner == two_dot_diffs(merge_base(from_commit, to_commit), to_commit, data)
    IN  [inner EXCEPT !.queries =
            <<Query("merge_base", from_commit, to_commit)>> \o @]

\* a three-dot diff that skips the merge base
three_dot_diffs_direct(from_commit, to_commit, data) ==
    two_dot_diffs(from_commit, to_commit, data)

three_dot_diffs(from_commit, to_commit, data) ==
    IF from_commit = None \/ to_commit = None
    THEN [raised |-> TRUE, error |-> ValueError, packages |-> <<>>, queries |-> <<>>]
    ELSE LET inner == two_dot_diffs(merge_base(from_commit, to_commit), to_commit, data)
         IN  [inner EXCEPT !.queries =
                 <<Query("merge_base", from_commit, to_commit)>> \o @]

CommitArgs == CommitHashes \cup {None}

\* a caller asks for the two-dot diff of a pair of commits
TwoDotDiffs ==
    \E from_commit \in CommitArgs, to_commit \in CommitArgs :
        /\ diffed = <<>>
        /\ diffed' = <<[op |-> "two_dot_diffs",
                        from_commit |-> from_commit, to_commit |-> to_commit,
                        result |-> two_dot_diffs(from_commit, to_commit, repo)]>>
        /\ UNCHANGED <<repo, commitVars, routerVars, branchVars>>

\* a caller asks for the three-dot diff of a pair of commits
ThreeDotDiffs ==
    \E from_commit \in CommitArgs, to_commit \in CommitArgs :
        /\ diffed = <<>>
        /\ diffed' = <<[op |-> "three_dot_diffs",
                        from_commit |-> from_commit, to_commit |-> to_commit,
                        result |-> three_dot_diffs(from_commit, to_commit, repo)]>>
        /\ UNCHANGED <<repo, commitVars, routerVars, branchVars>>

InitDiff ==
    /\ repo \in [CommitHashes -> Snapshots]
    /\ diffed = <<>>
    /\ CommitIdle
    /\ RouterIdle
    /\ BranchIdle

NextDiff == TwoDotDiffs \/ ThreeDotDiffs

SpecDiff == InitDiff /\ [][NextDiff]_vars

\* ------------------------------------------------------------------------
\* Properties of AutoDoltCommit
\* ------------------------------------------------------------------------

Finished(u) == pc[u] \in {"exited", "collected"}

\* the requests whose path holds "/health", listed one by one
ProbePaths == {PathHealth, PathApiHealth}

IsProbe(u) == ctx[u].request.path \in ProbePaths

\* a post-write with created flag true, an m2m add/remove with keys, a pre-delete
CreatedOrItemsOrDelete == {"post_save_created", "m2m_items", "pre_delete"}

\* the same, with every post-write whatever its created flag
WriteOrItemsOrDelete == CreatedOrItemsOrDelete \cup {"post_save_updated"}

\* C1 as stated: a unit of work that observed no post-write with created
\* flag true, no m2m add/remove with a non-empty key set and no pre-delete
\* has issued no commit once it has exited.
C1_AsStated ==
    \A u \in UnitIds :
        (Finished(u) /\ observed[u] \cap CreatedOrItemsOrDelete = {})
            => commits[u] = <<>>

\* C1 (amended): a unit of work that observed no post-write event at all
\* (whatever its created flag), no m2m add/remove event with a non-empty key
\* set and no pre-delete event issues no commit, whatever m2m events with an
\* empty key set or another action it observed.
C1_NoMutationNoCommit ==
    \A u \in UnitIds :
        observed[u] \cap WriteOrItemsOrDelete = {} => commits[u] = <<>>

\* a unit of work that is no probe observed only a non-qualifying m2m event
\* and has exited without a commit
C1_Witness ==
    \E u \in UnitIds :
        /\ pc[u] = "exited"
        /\ ~IsProbe(u)
        /\ observed[u] = {"m2m_other"}
        /\ commits[u] = <<>>

\* C2: a unit of work that is no health-check probe and observed a
\* post-write, an m2m add/remove with a non-empty key set or a pre-delete has
\* issued no commit before its exit and exactly one commit after it, however
\* many events it observed.
C2_ExactlyOneCommitAtExit ==
    \A u \in UnitIds :
        (~IsProbe(u) /\ observed[u] \cap WriteOrItemsOrDelete # {})
            => /\ Finished(u) => Len(commits[u]) = 1
               /\ ~Finished(u) => Len(commits[u]) = 0

\* a unit of work that is no probe observed two different mutations and has
\* exited with its single commit
C2_Witness ==
    \E u \in UnitIds :
        /\ pc[u] = "exited"
        /\ ~IsProbe(u)
        /\ observed[u] = {"post_save_updated", "pre_delete"}
        /\ Len(commits[u]) = 1

\* C3: after the exit of a unit of work none of its three handlers is still
\* subscribed, on every exit path.
C3_UnsubscribedOnExit ==
    \A u \in UnitIds :
        pc[u] = "exited" => \A s \in Signals : receivers[s] # u

\* C4: a unit of work whose request is a health-check probe never issues a
\* commit, even when its dirty flag is set.
C4_ProbeNeverCommits ==
    \A u \in UnitIds : IsProbe(u) => commits[u] = <<>>

\* a probe under /api/ has exited with its dirty flag set and no commit
C4_Witness ==
    \E u \in UnitIds :
        /\ pc[u] = "exited"
        /\ ctx[u].request.path = PathApiHealth
        /\ ctx[u].commit
        /\ commits[u] = <<>>

\* the strings of a list, in order, with "; " between neighbours
InOrderWithSemicolons(strings) ==
    LET acc[i \in 1..Len(strings)] ==
            IF i = 1 THEN strings[1] ELSE acc[i - 1] \o "; " \o strings[i]
    IN  acc[Len(strings)]

\* C5: the message of the commit a unit of work issues is its recorded
\* descriptions in event order joined by "; "; without descriptions it is the
\* tracked instances' strings joined by "; "; without either it is
\* "auto dolt commit".
C5_CommitMessage ==
    [][\A u \in UnitIds :
          commits'[u] # commits[u] =>
            /\ Len(commits'[u]) = Len(commits[u]) + 1
            /\ commits'[u][Len(commits'[u])].message =
                 IF ctx[u].changes # <<>> THEN InOrderWithSemicolons(ctx[u].changes)
                 ELSE IF ctx[u].instances # <<>>
                      THEN InOrderWithSemicolons(ctx[u].instances)
                      ELSE "auto dolt commit"]_vars

\* a commit carries two descriptions in the order of their events
C5_Witness ==
    \E u \in UnitIds :
        /\ Len(commits[u]) = 1
        /\ ctx[u].changes = <<"Created branch \"b1\" ", "site ams01 changed">>
        /\ commits[u][1].message = "Created branch \"b1\" ; site ams01 changed"

\* ------------------------------------------------------------------------
\* Properties of GlobalStateRouter
\* ------------------------------------------------------------------------

Called(op) == routed # <<>> /\ routed[1].op = op

\* the models outside branch history, listed one by one
NonVersioned ==
    {"Branch", "Commit", "PullRequest", "PullRequestReview",
     "ObjectChange", "User", "TestModel"}

\* the plugin's own models, listed one by one
VersionControlModels == {"Branch", "Commit", "PullRequest", "PullRequestReview"}

\* the error of a routing call names the model and the branch
NamesModelAndBranch(call) ==
    /\ call.result.error.type = "DoltError"
    /\ \E i \in 1..Len(call.result.error.message) :
          call.result.error.message[i] = call.model
    /\ \E i \in 1..Len(call.result.error.message) :
          call.result.error.message[i] = call.branch

RejectedOffPrimary(call) ==
    IF call.branch # "main"
    THEN call.result.raised /\ call.result.db = None /\ NamesModelAndBranch(call)
    ELSE ~call.result.raised /\ call.result.db = "global"

\* C6 as stated: every write to a non-versioned model fails with a DoltError
\* naming the model and the active branch when that branch is not the primary
\* one, and is routed to the global connection when it is.
C6_AsStated ==
    (Called("write") /\ routed[1].model \in NonVersioned) => RejectedOffPrimary(routed[1])

\* C6 (amended): while the global router is enabled, every write to a
\* non-versioned model that is not one of the version-control plugin's own
\* models fails with a DoltError naming the model and the active branch when
\* that branch is not the primary one, returning no connection, and is routed
\* to the global connection when it is.
C6_WriteOffPrimaryRejected ==
    (/\ Called("write")
     /\ routed[1].enabled
     /\ routed[1].model \in NonVersioned \ VersionControlModels)
        => RejectedOffPrimary(routed[1])

\* a write of User on branch feature was rejected
C6_Witness ==
    /\ Called("write")
    /\ routed[1].enabled
    /\ routed[1].model = "User"
    /\ routed[1].branch = "feature"
    /\ routed[1].result.raised

\* C7 as stated: a write to one of the plugin's own models never raises and
\* always returns the global connection.
C7_AsStated ==
    (Called("write") /\ routed[1].model \in VersionControlModels)
        => ~routed[1].result.raised /\ routed[1].result.db = "global"

\* C7 (amended): a write to one of the plugin's own models never raises on
\* any active branch; it returns the global connection whenever the global
\* router is enabled, and no override when the router is switched off.
C7_DoltModelsWritableEverywhere ==
    (Called("write") /\ routed[1].model \in VersionControlModels)
        => /\ ~routed[1].result.raised
           /\ routed[1].result.db = IF routed[1].enabled THEN "global" ELSE None

\* a write of Branch on branch feature went to the global connection
C7_Witness ==
    /\ Called("write")
    /\ routed[1].enabled
    /\ routed[1].model = "Branch"
    /\ routed[1].branch = "feature"
    /\ routed[1].result = Returned("global")

\* C8: for a versioned model, on every active branch, read routing and write
\* routing both return no override, leaving the branch-scoped connection, and
\* never raise.
C8_VersionedDeferred ==
    (routed # <<>> /\ routed[1].model \in {"Device", "Site"})
        => ~routed[1].result.raised /\ routed[1].result.db = None

\* a write of Device on branch feature, router enabled, was deferred
C8_Witness ==
    /\ Called("write")
    /\ routed[1].enabled
    /\ routed[1].model = "Device"
    /\ routed[1].branch = "feature"
    /\ routed[1].result = Returned(None)

\* C9 as stated: a read of a non-versioned model returns the global
\* connection on every branch, and no read raises.
C9_AsStated ==
    Called("read") =>
        /\ ~routed[1].result.raised
        /\ routed[1].model \in NonVersioned => routed[1].result.db = "global"

\* C9 (amended): while the global router is enabled, a read of a
\* non-versioned model returns the global connection whatever branch is
\* active (with the router switched off it returns no override), and read
\* routing never raises for any model on any branch.
C9_ReadsGlobal ==
    Called("read") =>
        /\ ~routed[1].result.raised
        /\ (routed[1].model \in NonVersioned /\ routed[1].enabled)
              => routed[1].result.db = "global"
        /\ ~routed[1].enabled => routed[1].result.db = None

\* a read of User on branch feature went to the global connection
C9_Witness ==
    /\ Called("read")
    /\ routed[1].enabled
    /\ routed[1].model = "User"
    /\ routed[1].branch = "feature"
    /\ routed[1].result = Returned("global")

\* ------------------------------------------------------------------------
\* Properties of DoltBranchMiddleware
\* ------------------------------------------------------------------------

\* C10: resolving a requested branch that is not in the branch table does
\* not raise, yields the default branch, records a "branch not found" warning
\* naming the requested branch, and stores the default branch name in the
\* session, so that the next resolution in the session yields the default
\* branch whatever the request header says.
C10_MissingBranchFallsBack ==
    (handled # <<>> /\ ~handled[1].found) =>
        /\ ~handled[1].get_branch_raised
        /\ handled[1].branch = "main"
        /\ \E i \in 1..Len(handled[1].messages) :
              handled[1].messages[i] =
                 [level |-> "warning",
                  text |-> <<"branch not found: ", handled[1].requested>>]
        /\ "dolt-branch" \in DOMAIN session
        /\ session["dolt-branch"] = "main"
        /\ \A headers \in HeaderChoices :
              branch_from_request([session |-> session, headers |-> headers]) = "main"

\* the session named the missing branch ghost and the request was served on
\* the default branch
C10_Witness ==
    /\ handled # <<>>
    /\ handled[1].requested = "ghost"
    /\ ~handled[1].found
    /\ handled[1].branch = "main"
    /\ handled[1].view_calls = 1
    /\ session = ("dolt-branch" :> "main")

\* C11: the branch resolved for a request is the one stored in the session
\* when the session holds one, even if a header names a branch too; otherwise
\* the one named by the header when present; otherwise the primary branch
C11_SessionThenHeaderThenDefault ==
    handled # <<>> =>
        LET r == handled[1].request IN
        /\ "dolt-branch" \in DOMAIN r.session =>
              handled[1].requested = r.session["dolt-branch"]
        /\ ("dolt-branch" \notin DOMAIN r.session /\ "dolt-branch" \in DOMAIN r.headers) =>
              handled[1].requested = r.headers["dolt-branch"]
        /\ ("dolt-branch" \notin DOMAIN r.session /\ "dolt-branch" \notin DOMAIN r.headers) =>
              handled[1].requested = "main"

\* the session stored feature, the header named ghost, and feature was resolved
C11_Witness ==
    /\ handled # <<>>
    /\ handled[1].request.session = ("dolt-branch" :> "feature")
    /\ handled[1].request.headers = ("dolt-branch" :> "ghost")
    /\ handled[1].requested = "feature"

\* C12: when the engine rejects the checkout of the resolved branch, the
\* failure is recorded as an error message of the request and does not leave
\* process_view: the view is still invoked once, on the branch the database
\* session was on before
C12_CheckoutFailureRecorded ==
    (handled # <<>> /\ ~handled[1].get_branch_raised /\ ~handled[1].checkout_ok) =>
        /\ \E i \in 1..Len(handled[1].messages) :
              handled[1].messages[i] =
                 [level |-> "error",
                  text |-> <<"could not checkout branch ", handled[1].branch,
                             ": ", "checkout rejected">>]
        /\ handled[1].view_calls = 1
        /\ handled[1].active_in_view = handled[1].active_before
        /\ active = handled[1].active_before
        /\ handled[1].response.kind = "raised" => handled[1].view_error.type # None

\* the checkout of feature was rejected while the session was on main, and the
\* view ran on main and answered
C12_Witness ==
    /\ handled # <<>>
    /\ handled[1].branch = "feature"
    /\ ~handled[1].get_branch_raised
    /\ ~handled[1].checkout_ok
    /\ handled[1].active_before = "main"
    /\ handled[1].active_in_view = "main"
    /\ handled[1].view_calls = 1
    /\ handled[1].response.kind = "response"

\* C13: a DoltError raised while the view runs does not leave process_view: it
\* is recorded as an error message, the response is a redirect to the path of
\* the request, and the view is invoked once only
C13_DoltErrorCaught ==
    (handled # <<>> /\ handled[1].view_error.type = "DoltError") =>
        /\ handled[1].response =
              [kind |-> "redirect", to |-> handled[1].request.path]
        /\ handled[1].view_calls = 1
        /\ \E i \in 1..Len(handled[1].messages) :
              handled[1].messages[i] =
                 [level |-> "error", text |-> handled[1].view_error.message]

\* a view wrote User on the branch feature, the router raised, and the client
\* was sent back to the path it asked for
C13_Witness ==
    /\ handled # <<>>
    /\ handled[1].view.writes = <<"User">>
    /\ handled[1].active_in_view = "feature"
    /\ handled[1].view_error.type = "DoltError"
    /\ handled[1].response = [kind |-> "redirect", to |-> PathApiHealth]
    /\ handled[1].view_calls = 1

\* every event a unit of work can perform
Events ==
    (Instances \X {post_save_kwargs(created) : created \in BOOLEAN})
    \cup (Instances \X {m2m_changed_kwargs(action, pk_set) :
                            action \in M2MActions, pk_set \in PkSets})
    \cup (Instances \X {pre_delete_kwargs})

\* C14: when a post_save or m2m_changed event observed by a unit of work
\* concerns one of the plugin's own objects, the commit issued at exit is made
\* on the primary branch, whatever branch the request was made on
C14_DoltObjectCommitsOnPrimary ==
    \A u \in UnitIds :
        "dolt_object" \in observed[u] =>
            \A i \in 1..Len(commits[u]) : commits[u][i].on_branch = "main"

\* C15: the commit of a unit of work carries an author derived from the user
\* of the request; the fixed identity is used only without an authenticated
\* user
C15_AuthorIsActingUser ==
    \A u \in UnitIds :
        \A i \in 1..Len(commits[u]) :
            commits[u][i].author = "nautobot <nautobot@ntc.com>" =>
                ~ctx[u].request.user.is_authenticated

\* C16: while two units of work are active, an event performed by one leaves
\* the dirty flag and the change list of the other alone and is observed by
\* the unit that performed it
C16_TrackingNotShared ==
    [][\A u \in UnitIds : \A e \in Events :
          send(u, e[1], e[2]) =>
              /\ \A v \in UnitIds \ {u} :
                    /\ ctx'[v].commit = ctx[v].commit
                    /\ ctx'[v].changes = ctx[v].changes
              /\ EventKind(e[2]) \in observed'[u]]_vars

\* ------------------------------------------------------------------------
\* Properties of the diffs
\* ------------------------------------------------------------------------

DiffCalled(op) ==
    /\ diffed # <<>>
    /\ diffed[1].op = op
    /\ diffed[1].from_commit # "None"
    /\ diffed[1].to_commit # "None"

\* primary keys of a model that were added, modified or removed between two
\* commits, read off the two snapshots
AddedPks(model, x, y) ==
    {pk \in DOMAIN repo[y][model] : repo[x][model][pk] = "None" /\ repo[y][model][pk] # "None"}

RemovedPks(model, x, y) ==
    {pk \in DOMAIN repo[y][model] : repo[x][model][pk] # "None" /\ repo[y][model][pk] = "None"}

ModifiedPks(model, x, y) ==
    {pk \in DOMAIN repo[y][model] :
        /\ repo[x][model][pk] # "None" /\ repo[y][model][pk] # "None"
        /\ repo[x][model][pk] # repo[y][model][pk]}

ChangedPks(model, x, y) ==
    AddedPks(model, x, y) \cup ModifiedPks(model, x, y) \cup RemovedPks(model, x, y)

PackageName(model) == IF model = "Site" THEN "site Diffs" ELSE "device Diffs"

\* C17: two_dot_diffs(X, Y) returns, for every registered type with changed
\* rows between X and Y, exactly one package, whose rows are one "to" row per
\* added or modified primary key and one "from" row per removed primary key,
\* and whose counts are the numbers of diff rows of each type
C17_OnePackagePerChangedType ==
    DiffCalled("two_dot_diffs") =>
        LET x == diffed[1].from_commit
            y == diffed[1].to_commit
            packages == diffed[1].result.packages
        IN  \A model \in {"Site", "Device"} :
                ChangedPks(model, x, y) # {} =>
                    \E i \in 1..Len(packages) :
                        /\ packages[i].name = PackageName(model)
                        /\ \A j \in 1..Len(packages) :
                              packages[j].name = PackageName(model) => j = i
                        /\ Len(packages[i].table) = Cardinality(ChangedPks(model, x, y))
                        /\ {<<packages[i].table[k].pk, packages[i].table[k].root>> :
                                k \in 1..Len(packages[i].table)}
                           = {<<pk, "to">> : pk \in AddedPks(model, x, y)
                                                    \cup ModifiedPks(model, x, y)}
                             \cup {<<pk, "from">> : pk \in RemovedPks(model, x, y)}
                        /\ packages[i].added = Cardinality(AddedPks(model, x, y))
                        /\ packages[i].modified = Cardinality(ModifiedPks(model, x, y))
                        /\ packages[i].removed = Cardinality(RemovedPks(model, x, y))

\* C18: a registered type with no diff row between the two commits is absent
\* from the result of two_dot_diffs: no package has an empty table or three
\* counts of zero
C18_NoEmptyPackage ==
    DiffCalled("two_dot_diffs") =>
        LET x == diffed[1].from_commit
            y == diffed[1].to_commit
            packages == diffed[1].result.packages
        IN  /\ \A i \in 1..Len(packages) :
                  /\ Len(packages[i].table) > 0
                  /\ packages[i].added + packages[i].modified + packages[i].removed > 0
            /\ \A model \in {"Site", "Device"} :
                  ChangedPks(model, x, y) = {} =>
                      \A i \in 1..Len(packages) : packages[i].name # PackageName(model)

\* the sites are the same at cA and cB, the devices are not, and the diff of
\* cA and cB holds no package of sites
C18_Witness ==
    /\ DiffCalled("two_dot_diffs")
    /\ diffed[1].from_commit = "cA"
    /\ diffed[1].to_commit = "cB"
    /\ repo["cA"]["Site"] = repo["cB"]["Site"]
    /\ repo["cA"]["Site"][7] = "v1"
    /\ repo["cA"]["Device"] # repo["cB"]["Device"]
    /\ ~diffed[1].result.raised
    /\ \A i \in 1..Len(diffed[1].result.packages) :
          diffed[1].result.packages[i].name # "site Diffs"

\* C19: two_dot_diffs(C, C) returns an empty list, whatever exists at C
C19_SameCommitEmpty ==
    (DiffCalled("two_dot_diffs") /\ diffed[1].from_commit = diffed[1].to_commit) =>
        /\ ~diffed[1].result.raised
        /\ diffed[1].result.packages = <<>>

\* cA holds two sites and a device and was diffed against itself
C19_Witness ==
    /\ DiffCalled("two_dot_diffs")
    /\ diffed[1].from_commit = "cA"
    /\ diffed[1].to_commit = "cA"
    /\ repo["cA"] = [Site |-> (7 :> "v2" @@ 9 :> "v1"), Device |-> (7 :> "v1")]
    /\ diffed[1].result.packages = <<>>

\* C20: three_dot_diffs(A, B) asks for the merge base of A and B and returns
\* what two_dot_diffs returns for the merge base and B; rows changed on A's
\* side only are not in the result
C20_ThreeDotFromMergeBase ==
    DiffCalled("three_dot_diffs") =>
        LET a == diffed[1].from_commit
            b == diffed[1].to_commit
            base == IF a = b THEN a ELSE "c0"
            result == diffed[1].result
        IN  /\ ~result.raised
            /\ result.packages = two_dot_diffs(base, b, repo).packages
            /\ result.queries =
                  <<[op |-> "merge_base", from_commit |-> a, to_commit |-> b],
                    [op |-> "dolt_commit_diff", from_commit |-> base, to_commit |-> b]>>
            /\ \A i \in 1..Len(result.packages) :
                  \A k \in 1..Len(result.packages[i].table) :
                      \E model \in {"Site", "Device"} :
                          result.packages[i].table[k].pk \in ChangedPks(model, base, b)

\* cA and cB both differ from their merge base c0 and from each other, and
\* the three-dot diff of cA and cB queried the engine for c0 and cB
C20_Witness ==
    /\ DiffCalled("three_dot_diffs")
    /\ diffed[1].from_commit = "cA"
    /\ diffed[1].to_commit = "cB"
    /\ repo["cA"] # repo["c0"]
    /\ repo["cB"] # repo["c0"]
    /\ repo["cA"] # repo["cB"]
    /\ Len(diffed[1].result.queries) = 2
    /\ diffed[1].result.queries[2].from_commit = "c0"
    /\ diffed[1].result.queries[2].to_commit = "cB"

\* C21: with from_commit or to_commit unset, two_dot_diffs and
\* three_dot_diffs raise the ValueError that names both parameters, before
\* the merge base is asked for and before any query reaches the engine, and
\* return nothing
C21_UnsetCommitRejected ==
    (/\ diffed # <<>>
     /\ diffed[1].op \in {"two_dot_diffs", "three_dot_diffs"}
     /\ (diffed[1].from_commit = "None" \/ diffed[1].to_commit = "None")) =>
        /\ diffed[1].result.raised
        /\ diffed[1].result.error = "must specify both a to_commit and from_commit"
        /\ diffed[1].result.queries = <<>>
        /\ diffed[1].result.packages = <<>>

\* three_dot_diffs was called with from_commit cA and no to_commit, on a
\* repository where cA differs from c0, and raised without a query
C21_Witness ==
    /\ diffed # <<>>
    /\ diffed[1].op = "three_dot_diffs"
    /\ diffed[1].from_commit = "cA"
    /\ diffed[1].to_commit = "None"
    /\ repo["cA"] # repo["c0"]
    /\ diffed[1].result.raised
    /\ diffed[1].result.queries = <<>>

\* C22: in every state of a unit of work, a non-empty list of change
\* descriptions implies that the dirty flag is set
C22_ChangesImplyDirty ==
    \A u \in UnitIds : ctx[u].changes # <<>> => ctx[u].commit

\* the unit of work ended by an exception of its body after it observed a
\* qualifying mutation, on a request that is no health-check probe
RaisedAfterMutation(u) ==
    /\ Finished(u)
    /\ body[u] = "Exception"
    /\ ~IsProbe(u)
    /\ observed[u] \cap CreatedOrItemsOrDelete # {}

\* C23 as stated: when the unit of work ends by an exception after a
\* qualifying mutation (no health-check probe), the commit is issued at exit
\* and the exception of the body is the one that reaches the caller
C23_AsStated ==
    \A u \in UnitIds :
        RaisedAfterMutation(u) =>
            /\ Len(commits[u]) = 1
            /\ outcome[u] = "raised_body"

\* C23: when the unit of work ends by an exception after a qualifying
\* mutation (no health-check probe), the commit is issued at exit and an
\* exception reaches the caller: the one of the body, or the one of the
\* commit when the commit itself raises
C23_CommitThenRaise ==
    \A u \in UnitIds :
        RaisedAfterMutation(u) =>
            /\ Len(commits[u]) = 1
            /\ outcome[u] \in {"raised_body", "raised_commit"}

\* a unit of work observed the creation of an object, its body raised, the
\* commit was issued and the exception of the body reached the caller
C23_Witness ==
    \E u \in UnitIds :
        /\ Finished(u)
        /\ body[u] = "Exception"
        /\ ctx[u].request.path = PathSites
        /\ "post_save_created" \in observed[u]
        /\ Len(commits[u]) = 1
        /\ outcome[u] = "raised_body"

====
